---- MODULE Spec2Model ----
(***************************************************************************)
(* snippetbox: the request pipeline of cmd/web.                            *)
(*                                                                         *)
(* One request is in flight at a time.  It walks down the middleware       *)
(* chain that routes() composes (standard chain, router, per-route chain,  *)
(* terminal handler), one frame per step, and back up again; a panic       *)
(* unwinds the frames until a recover catches it.  The stores (sessions,   *)
(* users, snippets) outlive the requests.                                  *)
(*                                                                         *)
(* Text values are strings; the path of a request is its sequence of       *)
(* segments ("/snippet/view/1" is <<"snippet","view","1">>).               *)
(***************************************************************************)
EXTENDS Integers, Sequences, FiniteSets, TLC

VARIABLES
    sessionStore,   \* session backend: token -> session data
    users,          \* users table: sequence of emails, id = index
    snippets,       \* snippets table: sequence of snippet records
    templateCache,  \* app.templateCache: the set of its keys
    now,            \* the database clock, in days (a behaviour is within one day)
    nextSecret,     \* next CSRF secret the guard hands out
    nreq,           \* requests accepted so far
    req,            \* the request in flight
    mode,           \* "idle" | "down" | "up" | "panic" | "done" | "render"
    chain,          \* frames of the composed handler for this request
    pos,            \* index in chain of the frame that runs next
    w,              \* the connection's http.ResponseWriter
    bw,             \* LoadAndSave's buffered writer for the inner chain
    buffering,      \* TRUE while the inner chain of LoadAndSave runs
    hdr,            \* response header map
    sess,           \* session data in the request context
    ctxAuth,        \* context value under isAuthenticatedContextKey
    call,           \* what the terminal handler did on this request
    trace,          \* phases run for this request, in order
    snap,           \* the stores as they were when the request arrived
    arg             \* arguments of a helper called on its own

vars == <<sessionStore, users, snippets, templateCache, now, nextSecret, nreq, req,
          mode, chain, pos, w, bw, buffering, hdr, sess, ctxAuth, call, trace,
          snap, arg>>

-----------------------------------------------------------------------------
(* Bounds of the model *)

MaxRequests == 2    \* requests served in one behaviour
MaxSessions == 2    \* sessions the backend holds
MaxUsers    == 2    \* rows of the users table
MaxSnippets == 2    \* rows of the snippets table

-----------------------------------------------------------------------------
(* http.ResponseWriter *)

NewWriter(buffered) ==
    [code |-> 0, body |-> << >>, calls |-> 0, buffered |-> buffered]

\* The first WriteHeader decides the status; later calls are superfluous.
WriteHeader(wr, code) ==
    [wr EXCEPT !.code = IF wr.code = 0 THEN code ELSE wr.code,
               !.calls = wr.calls + 1]

\* A Write on the connection commits an implicit 200 when no status was
\* written; the buffered writer only collects the bytes.
Write(wr, chunks) ==
    [wr EXCEPT !.body = wr.body \o chunks,
               !.code = IF wr.code = 0 /\ ~wr.buffered THEN 200 ELSE wr.code]

NoData == [Flash |-> "", IsAuthenticated |-> FALSE, CSRFToken |-> 0,
           Form |-> [kind |-> "none", f1 |-> "", f2 |-> "", f3 |-> "", n |-> 0,
                     FieldErrors |-> << >>],
           Snippet |-> [ID |-> 0, Title |-> "", Content |-> "", Created |-> 0,
                        Expires |-> 0],
           Snippets |-> << >>]

Text(s) == [src |-> "text", part |-> s, data |-> NoData]

StatusText(code) ==
    CASE code = 400 -> "Bad Request"
      [] code = 404 -> "Not Found"
      [] code = 405 -> "Method Not Allowed"
      [] code = 500 -> "Internal Server Error"
      [] OTHER -> "?"

\* The status line of the connection has been written.
Committed(cx) == IF cx.out.buffered THEN cx.wire # 0 ELSE cx.out.code # 0

\* Header().Set has an effect only while the status line is uncommitted.
SetHeader(cx, key, val) ==
    IF Committed(cx) THEN cx ELSE [cx EXCEPT !.hdr = [cx.hdr EXCEPT ![key] = val]]

\* http.Error: content type, status line, then the text.
httpError(cx, text, code) ==
    LET c1 == SetHeader(cx, "ContentType", "text/plain")
    IN  [c1 EXCEPT !.out = Write(WriteHeader(c1.out, code), <<Text(text)>>)]

-----------------------------------------------------------------------------
(* helpers.go *)

serverError(cx, err) ==
    LET c1 == [cx EXCEPT !.call = Append(cx.call, "errorLog")]
    IN  httpError(c1, StatusText(500), 500)

clientError(cx, status) == httpError(cx, StatusText(status), status)

notFound(cx) == clientError(cx, 404)

-----------------------------------------------------------------------------
(* Session data in the request context (scs.SessionManager) *)

NoLocation == <<"-">>

EmptySession == [flash |-> "", auth |-> 0, csrf |-> 0, redirect |-> NoLocation]

\* Put marks the session Modified.
Put(cx, key, val) ==
    [cx EXCEPT !.sess = [cx.sess EXCEPT !.data = [cx.sess.data EXCEPT ![key] = val],
                                        !.status = "Modified"],
               !.call = Append(cx.call, "Put:" \o key)]

\* PopString returns the value and deletes the key; a missing key changes
\* nothing.  The result is [cx, val].
PopString(cx, key) ==
    IF cx.sess.data[key] = ""
    THEN [cx |-> cx, val |-> ""]
    ELSE [cx |-> [cx EXCEPT !.sess = [cx.sess EXCEPT !.data = [cx.sess.data EXCEPT ![key] = ""],
                                                     !.status = "Modified"],
                            !.call = Append(cx.call, "Pop:" \o key)],
          val |-> cx.sess.data[key]]

\* The context value is a bool only after authenticate has set it.
isAuthenticated(ctx) == IF ctx \notin {"true", "false"} THEN FALSE ELSE ctx = "true"

\* A newTemplateData that reads the flash message and leaves it in the session.
newTemplateData_Peek(cx) ==
    [cx |-> [cx EXCEPT !.call = Append(cx.call, "newTemplateData")],
     data |-> [NoData EXCEPT !.Flash = cx.sess.data.flash,
                             !.IsAuthenticated = isAuthenticated(cx.ctxAuth),
                             !.CSRFToken = cx.sess.data.csrf]]

\* newTemplateData pops the flash message; the result is [cx, data].
newTemplateData(cx) ==
    LET p == PopString([cx EXCEPT !.call = Append(cx.call, "newTemplateData")], "flash")
    IN  [cx |-> p.cx,
         data |-> [NoData EXCEPT !.Flash = p.val,
                                 !.IsAuthenticated = isAuthenticated(cx.ctxAuth),
                                 !.CSRFToken = cx.sess.data.csrf]]

-----------------------------------------------------------------------------
(* render *)

\* ExecuteTemplate writes the base layout, then the page with its data; a
\* failure (an error, or a runtime panic of a template function) leaves the
\* part written so far in the buffer.
ExecuteTemplate(page, data, fault) ==
    LET full == <<[src |-> page, part |-> "base", data |-> NoData],
                  [src |-> page, part |-> "main", data |-> data]>>
    IN  CASE fault = "execErr"   -> [buf |-> SubSeq(full, 1, 1), err |-> TRUE, panic |-> FALSE]
          [] fault = "execPanic" -> [buf |-> SubSeq(full, 1, 1), err |-> FALSE, panic |-> TRUE]
          [] OTHER               -> [buf |-> full, err |-> FALSE, panic |-> FALSE]

\* A render that executes the template straight into the ResponseWriter.
render_Unbuffered(cx, status, page, data) ==
    IF page \notin cx.cache
    THEN serverError(cx, "the template does not exist")
    ELSE LET r  == ExecuteTemplate(page, data, cx.fault)
             c1 == [cx EXCEPT !.out = Write(WriteHeader(cx.out, status), r.buf)]
         IN  IF r.panic THEN [c1 EXCEPT !.panicked = TRUE]
             ELSE IF r.err THEN serverError(c1, "execute")
             ELSE c1

\* A render that parses a missing page on demand and keeps it.
render_LazyFill(cx, status, page, data) ==
    LET c0 == [cx EXCEPT !.cache = cx.cache \cup {page}]
        r  == ExecuteTemplate(page, data, cx.fault)
    IN  IF r.panic THEN [c0 EXCEPT !.panicked = TRUE]
        ELSE IF r.err THEN serverError(c0, "execute")
        ELSE [c0 EXCEPT !.out = Write(WriteHeader(c0.out, status), r.buf)]

render(cx, status, page, data) ==
    IF page \notin cx.cache
    THEN serverError(cx, "the template does not exist")
    ELSE LET r == ExecuteTemplate(page, data, cx.fault)
         IN  IF r.panic THEN [cx EXCEPT !.panicked = TRUE]
             ELSE IF r.err THEN serverError(cx, "execute")
             ELSE [cx EXCEPT !.out = Write(WriteHeader(cx.out, status), r.buf)]

-----------------------------------------------------------------------------
(* Text values of the model, with what the string functions compute of them *)

\* utf8.RuneCountInString
CharCount(s) ==
    CASE s = "" -> 0
      [] s \in {" ", "T", "C"} -> 1
      [] s \in {"Bob", "bob"} -> 3
      [] s = "short" -> 5
      [] s \in {"a@x.io", "b@x.io"} -> 6
      [] s = "pa55word" -> 8
      [] s = "LONG" -> 101
      [] OTHER -> 1

\* strings.TrimSpace
TrimSpace(s) == IF s = " " THEN "" ELSE s

\* strconv.Atoi: [ok, val]
Atoi(s) ==
    CASE s = "0"   -> [ok |-> TRUE, val |-> 0]
      [] s = "1"   -> [ok |-> TRUE, val |-> 1]
      [] s = "2"   -> [ok |-> TRUE, val |-> 2]
      [] s = "7"   -> [ok |-> TRUE, val |-> 7]
      [] s = "365" -> [ok |-> TRUE, val |-> 365]
      [] OTHER     -> [ok |-> FALSE, val |-> 0]

\* validator
NotBlank(s) == TrimSpace(s) # ""
MaxChars(s, n) == CharCount(s) <= n
MinChars(s, n) == CharCount(s) >= n
PermittedInt(v, permitted) == v \in permitted
MatchesEmailRX(s) == s \in {"a@x.io", "b@x.io"}

\* CheckField adds the message under the key when the check failed.
AddFieldError(form, key, message) ==
    [form EXCEPT !.FieldErrors = Append(form.FieldErrors, <<key, message>>)]
\* A CheckField that stops recording once the form holds an error.
CheckField_FirstOnly(form, ok, key, message) ==
    IF ok \/ form.FieldErrors # << >> THEN form ELSE AddFieldError(form, key, message)
CheckField(form, ok, key, message) ==
    IF ok THEN form ELSE AddFieldError(form, key, message)
Valid(form) == form.FieldErrors = << >>
ErrorKeys(form) == {form.FieldErrors[i][1] : i \in DOMAIN form.FieldErrors}

-----------------------------------------------------------------------------
(* Stores *)

\* An Insert that answers with the next id and keeps no row.
SnippetInsert_NoRow(rows, title, content, expires, clock, fault) ==
    IF fault = "db"
    THEN [err |-> "db", id |-> 0, rows |-> rows]
    ELSE [err |-> "", id |-> Len(rows) + 1, rows |-> rows]

\* SnippetModel.Insert: [err, id, snippets]
SnippetInsert(rows, title, content, expires, clock, fault) ==
    IF fault = "db"
    THEN [err |-> "db", id |-> 0, rows |-> rows]
    ELSE [err |-> "", id |-> Len(rows) + 1,
          rows |-> Append(rows, [ID |-> Len(rows) + 1, Title |-> title,
                                 Content |-> content, Created |-> clock,
                                 Expires |-> clock + expires])]

\* A Get that returns the row with the id whatever its expiry.
SnippetGet_NoExpiry(rows, id, clock, fault) ==
    LET hit == {i \in DOMAIN rows : rows[i].ID = id}
    IN  IF fault = "db" THEN [err |-> "db", row |-> NoData.Snippet]
        ELSE IF hit = {} THEN [err |-> "ErrNoRecord", row |-> NoData.Snippet]
        ELSE [err |-> "", row |-> rows[CHOOSE i \in hit : TRUE]]

\* SnippetModel.Get: the row with the id that has not expired.
SnippetGet(rows, id, clock, fault) ==
    LET hit == {i \in DOMAIN rows : rows[i].ID = id /\ rows[i].Expires > clock}
    IN  IF fault = "db" THEN [err |-> "db", row |-> NoData.Snippet]
        ELSE IF hit = {} THEN [err |-> "ErrNoRecord", row |-> NoData.Snippet]
        ELSE [err |-> "", row |-> rows[CHOOSE i \in hit : TRUE]]

RECURSIVE LatestFrom(_, _, _)
LatestFrom(rows, i, clock) ==
    IF i = 0 THEN << >>
    ELSE IF rows[i].Expires > clock
         THEN <<rows[i]>> \o LatestFrom(rows, i - 1, clock)
         ELSE LatestFrom(rows, i - 1, clock)

\* SnippetModel.Latest: unexpired rows, newest id first, at most 10.
SnippetLatest(rows, clock, fault) ==
    LET all == LatestFrom(rows, Len(rows), clock)
    IN  IF fault = "db" THEN [err |-> "db", rows |-> << >>]
        ELSE [err |-> "", rows |-> SubSeq(all, 1, IF Len(all) < 10 THEN Len(all) ELSE 10)]

\* UserModel.Insert: the email is unique.
UserInsert(rows, name, email, password, fault) ==
    IF fault = "db" THEN [err |-> "db", rows |-> rows]
    ELSE IF \E i \in DOMAIN rows : rows[i] = email
    THEN [err |-> "ErrDuplicateEmail", rows |-> rows]
    ELSE [err |-> "", rows |-> Append(rows, email)]

\* UserModel.Exists
UserExists(rows, id) == id \in DOMAIN rows

-----------------------------------------------------------------------------
(* handlers.go *)

\* http.Redirect: Location, the status line and, for a GET without a content
\* type, a short HTML body.
Redirect(cx, path, code) ==
    LET hadCT == cx.hdr.ContentType # ""
        html  == ~hadCT /\ cx.req.method = "GET"
        c1 == SetHeader(cx, "Location", path)
        c2 == IF html THEN SetHeader(c1, "ContentType", "text/html") ELSE c1
        c3 == [c2 EXCEPT !.out = WriteHeader(c2.out, code)]
    IN  IF html THEN [c3 EXCEPT !.out = Write(c3.out, <<Text("redirect")>>)] ELSE c3

\* formDecoder.Decode into the form of the handler: [err, form].  The
\* expires field is an int, the other fields are strings.
Decode(kind, post) ==
    LET a == Atoi(post[3])
        base == [NoData.Form EXCEPT !.kind = kind, !.f1 = post[1], !.f2 = post[2]]
    IN  IF kind = "create"
        THEN [err |-> ~a.ok, form |-> [base EXCEPT !.n = a.val]]
        ELSE [err |-> FALSE, form |-> [base EXCEPT !.f3 = post[3]]]

\* A decodePostForm that swallows the error and hands on what was decoded.
decodePostForm_Lenient(kind, post, fault) ==
    [err |-> FALSE, panic |-> fault = "decoder", form |-> Decode(kind, post).form]

\* decodePostForm: [err, panic, form].  ParseForm fails on a malformed
\* body; an InvalidDecoderError is raised as a panic.
decodePostForm(kind, post, fault) ==
    LET d == Decode(kind, post)
    IN  IF fault = "parse" THEN [err |-> TRUE, panic |-> FALSE, form |-> NoData.Form]
        ELSE IF fault = "decoder" THEN [err |-> FALSE, panic |-> TRUE, form |-> NoData.Form]
        ELSE [err |-> d.err, panic |-> FALSE, form |-> d.form]

home(cx) ==
    LET l == SnippetLatest(cx.snippets, cx.now, cx.fault)
        t == newTemplateData(cx)
    IN  IF l.err # "" THEN serverError(cx, l.err)
        ELSE render(t.cx, 200, "home.tmpl", [t.data EXCEPT !.Snippets = l.rows])

\* A snippetView that hands whatever the id segment converts to to Get.
snippetView_NoIdCheck(cx) ==
    LET id == Atoi(cx.req.path[3])
        cg == [cx EXCEPT !.call = Append(cx.call, "snippets.Get")]
        g  == SnippetGet(cx.snippets, id.val, cx.now, cx.fault)
        t  == newTemplateData(cg)
    IN  IF g.err = "ErrNoRecord" THEN notFound(cg)
        ELSE IF g.err # "" THEN serverError(cg, g.err)
        ELSE render(t.cx, 200, "view.tmpl", [t.data EXCEPT !.Snippet = g.row])

snippetView(cx) ==
    LET id == Atoi(cx.req.path[3])
        cg == [cx EXCEPT !.call = Append(cx.call, "snippets.Get")]
        g  == SnippetGet(cx.snippets, id.val, cx.now, cx.fault)
        t  == newTemplateData(cg)
    IN  IF ~id.ok \/ id.val < 1 THEN notFound(cx)
        ELSE IF g.err = "ErrNoRecord" THEN notFound(cg)
        ELSE IF g.err # "" THEN serverError(cg, g.err)
        ELSE render(t.cx, 200, "view.tmpl", [t.data EXCEPT !.Snippet = g.row])

snippetCreate(cx) ==
    LET t == newTemplateData(cx)
    IN  render(t.cx, 200, "create.tmpl",
               [t.data EXCEPT !.Form = [NoData.Form EXCEPT !.kind = "create", !.n = 365]])

\* A create handler that does not check the expires field.
snippetCreatePost_AnyExpires(cx) ==
    LET d  == decodePostForm("create", cx.req.post, cx.fault)
        d2 == Decode("create", cx.req.post)
        f0 == d2.form
        f1 == CheckField(f0, NotBlank(f0.f1), "title", "This field cannot be blank")
        f2 == CheckField(f1, MaxChars(f0.f1, 100), "title",
                         "This field cannot be more than 100 characters long")
        f4 == CheckField(f2, NotBlank(f0.f2), "content", "This field cannot be blank")
        cv == [cx EXCEPT !.call = Append(cx.call, "CheckField")]
        t  == newTemplateData(cv)
        ins == SnippetInsert(cx.snippets, f4.f1, f4.f2, f4.n, cx.now, cx.fault)
        c1 == [cv EXCEPT !.snippets = ins.rows,
                         !.call = Append(cv.call, "snippets.Insert")]
    IN  IF d.panic THEN [cx EXCEPT !.panicked = TRUE]
        ELSE IF d.err THEN clientError(cx, 400)
        ELSE IF d2.err THEN clientError(cx, 400)
        ELSE IF ~Valid(f4)
             THEN render(t.cx, 422, "create.tmpl", [t.data EXCEPT !.Form = f4])
        ELSE IF ins.err # "" THEN serverError(c1, ins.err)
        ELSE Redirect(Put(c1, "flash", "Snippet successfully created!"),
                      <<"snippet", "view", ToString(ins.id)>>, 303)

\* A create handler that does not check the title.
snippetCreatePost_NoTitleCheck(cx) ==
    LET d  == decodePostForm("create", cx.req.post, cx.fault)
        d2 == Decode("create", cx.req.post)
        f0 == d2.form
        f3 == CheckField(f0, NotBlank(f0.f2), "content", "This field cannot be blank")
        f4 == CheckField(f3, PermittedInt(f0.n, {1, 7, 365}), "expires",
                         "This field must equal 1, 7 or 365")
        cv == [cx EXCEPT !.call = Append(cx.call, "CheckField")]
        t  == newTemplateData(cv)
        ins == SnippetInsert(cx.snippets, f4.f1, f4.f2, f4.n, cx.now, cx.fault)
        c1 == [cv EXCEPT !.snippets = ins.rows,
                         !.call = Append(cv.call, "snippets.Insert")]
    IN  IF d.panic THEN [cx EXCEPT !.panicked = TRUE]
        ELSE IF d.err THEN clientError(cx, 400)
        ELSE IF d2.err THEN clientError(cx, 400)
        ELSE IF ~Valid(f4)
             THEN render(t.cx, 422, "create.tmpl", [t.data EXCEPT !.Form = f4])
        ELSE IF ins.err # "" THEN serverError(c1, ins.err)
        ELSE Redirect(Put(c1, "flash", "Snippet successfully created!"),
                      <<"snippet", "view", ToString(ins.id)>>, 303)

snippetCreatePost(cx) ==
    LET d  == decodePostForm("create", cx.req.post, cx.fault)
        d2 == Decode("create", cx.req.post)
        f0 == d2.form
        f1 == CheckField(f0, NotBlank(f0.f1), "title", "This field cannot be blank")
        f2 == CheckField(f1, MaxChars(f0.f1, 100), "title",
                         "This field cannot be more than 100 characters long")
        f3 == CheckField(f2, NotBlank(f0.f2), "content", "This field cannot be blank")
        f4 == CheckField(f3, PermittedInt(f0.n, {1, 7, 365}), "expires",
                         "This field must equal 1, 7 or 365")
        cv == [cx EXCEPT !.call = Append(cx.call, "CheckField")]
        t  == newTemplateData(cv)
        ins == SnippetInsert(cx.snippets, f4.f1, f4.f2, f4.n, cx.now, cx.fault)
        c1 == [cv EXCEPT !.snippets = ins.rows,
                         !.call = Append(cv.call, "snippets.Insert")]
    IN  IF d.panic THEN [cx EXCEPT !.panicked = TRUE]
        ELSE IF d.err THEN clientError(cx, 400)
        ELSE IF d2.err THEN clientError(cx, 400)
        ELSE IF ~Valid(f4)
             THEN render(t.cx, 422, "create.tmpl", [t.data EXCEPT !.Form = f4])
        ELSE IF ins.err # "" THEN serverError(c1, ins.err)
        ELSE Redirect(Put(c1, "flash", "Snippet successfully created!"),
                      <<"snippet", "view", ToString(ins.id)>>, 303)

userSignup(cx) ==
    LET t == newTemplateData(cx)
    IN  render(t.cx, 200, "signup.tmpl",
               [t.data EXCEPT !.Form = [NoData.Form EXCEPT !.kind = "signup"]])

\* A signup handler that answers every failed users.Insert with a 500.
userSignupPost_NoDuplicateBranch(cx) ==
    LET d  == decodePostForm("signup", cx.req.post, cx.fault)
        f0 == d.form
        f1 == CheckField(f0, NotBlank(f0.f1), "name", "This field cannot be blank")
        f2 == CheckField(f1, NotBlank(f0.f2), "email", "This field cannot be blank")
        f3 == CheckField(f2, MatchesEmailRX(f0.f2), "email",
                         "This field must be a valid email address")
        f4 == CheckField(f3, NotBlank(f0.f3), "password", "This field cannot be blank")
        f5 == CheckField(f4, MinChars(f0.f3, 8), "password",
                         "This field must be at least 8 characters long")
        cv == [cx EXCEPT !.call = Append(cx.call, "CheckField")]
        t  == newTemplateData(cv)
        ins == UserInsert(cx.users, f5.f1, f5.f2, f5.f3, cx.fault)
        c1 == [cv EXCEPT !.users = ins.rows, !.call = Append(cv.call, "users.Insert")]
        c2 == IF ins.err # "" THEN serverError(c1, ins.err) ELSE c1
    IN  IF d.panic THEN [cx EXCEPT !.panicked = TRUE]
        ELSE IF d.err THEN clientError(cx, 400)
        ELSE IF ~Valid(f5)
             THEN render(t.cx, 422, "signup.tmpl", [t.data EXCEPT !.Form = f5])
        ELSE Redirect(Put(c2, "flash", "Your signup was succesful. Please log in"),
                      <<"user", "login">>, 303)

\* After the users.Insert error branches the handler does not return: the
\* flash Put and the redirect below run on every path that reaches Insert.
userSignupPost(cx) ==
    LET d  == decodePostForm("signup", cx.req.post, cx.fault)
        f0 == d.form
        f1 == CheckField(f0, NotBlank(f0.f1), "name", "This field cannot be blank")
        f2 == CheckField(f1, NotBlank(f0.f2), "email", "This field cannot be blank")
        f3 == CheckField(f2, MatchesEmailRX(f0.f2), "email",
                         "This field must be a valid email address")
        f4 == CheckField(f3, NotBlank(f0.f3), "password", "This field cannot be blank")
        f5 == CheckField(f4, MinChars(f0.f3, 8), "password",
                         "This field must be at least 8 characters long")
        cv == [cx EXCEPT !.call = Append(cx.call, "CheckField")]
        t  == newTemplateData(cv)
        ins == UserInsert(cx.users, f5.f1, f5.f2, f5.f3, cx.fault)
        c1 == [cv EXCEPT !.users = ins.rows, !.call = Append(cv.call, "users.Insert")]
        fe == AddFieldError(f5, "email", "Email address is already in use")
        t1 == newTemplateData(c1)
        c2 == IF ins.err = "ErrDuplicateEmail"
              THEN render(t1.cx, 422, "signup.tmpl", [t1.data EXCEPT !.Form = fe])
              ELSE IF ins.err # "" THEN serverError(c1, ins.err)
              ELSE c1
    IN  IF d.panic THEN [cx EXCEPT !.panicked = TRUE]
        ELSE IF d.err THEN clientError(cx, 400)
        ELSE IF ~Valid(f5)
             THEN render(t.cx, 422, "signup.tmpl", [t.data EXCEPT !.Form = f5])
        ELSE IF c2.panicked THEN c2
        ELSE Redirect(Put(c2, "flash", "Your signup was succesful. Please log in"),
                      <<"user", "login">>, 303)

userLogin(cx) ==
    [cx EXCEPT !.out = Write(cx.out, <<Text("Display a HTML form for logging in  a user")>>)]

userLoginPost(cx) ==
    [cx EXCEPT !.out = Write(cx.out, <<Text("Authenticate and login the user...")>>)]

userLogoutPost(cx) ==
    [cx EXCEPT !.out = Write(cx.out, <<Text("Logout the user...")>>)]

ping(cx) == [cx EXCEPT !.out = Write(cx.out, <<Text("OK")>>)]

StaticFiles == {"main.css"}

\* http.FileServer over the embedded ui files.
fileServer(cx) ==
    IF cx.req.path[2] \in StaticFiles
    THEN [cx EXCEPT !.out = Write(cx.out, <<Text(cx.req.path[2])>>)]
    ELSE httpError(cx, "404 page not found", 404)

Handler(name, cx) ==
    CASE name = "home"              -> home(cx)
      [] name = "snippetView"       -> snippetView(cx)
      [] name = "snippetCreate"     -> snippetCreate(cx)
      [] name = "snippetCreatePost" -> snippetCreatePost(cx)
      [] name = "userSignup"        -> userSignup(cx)
      [] name = "userSignupPost"    -> userSignupPost(cx)
      [] name = "userLogin"         -> userLogin(cx)
      [] name = "userLoginPost"     -> userLoginPost(cx)
      [] name = "userLogoutPost"    -> userLogoutPost(cx)
      [] name = "ping"              -> ping(cx)
      [] name = "fileServer"        -> fileServer(cx)

Handlers == {"home", "snippetView", "snippetCreate", "snippetCreatePost",
             "userSignup", "userSignupPost", "userLogin", "userLoginPost",
             "userLogoutPost", "ping", "fileServer"}

-----------------------------------------------------------------------------
(* routes.go *)

\* A dynamic chain with the CSRF guard in front of the session.
dynamic_SessionInner == <<"noSurf", "LoadAndSave", "authenticate">>

\* A dynamic chain with a recovery of its own inside the session.
dynamic_RecoverInside == <<"LoadAndSave", "recoverPanic", "noSurf", "authenticate">>

\* A dynamic chain without the CSRF guard.
dynamic_NoSurfDropped == <<"LoadAndSave", "authenticate">>

dynamic == <<"LoadAndSave", "noSurf", "authenticate">>

\* A protected chain that is only the dynamic chain.
protected_NoGuard == dynamic

protected == dynamic \o <<"requireAuthentication">>

\* A standard chain without secureHeaders.
standard_NoSecureHeaders == <<"recoverPanic", "logRequest">>

\* A standard chain without the recovery.
standard_NoRecover == <<"logRequest", "secureHeaders">>

\* A standard chain composed with the recovery innermost.
standard_RecoverInnermost == <<"logRequest", "secureHeaders", "recoverPanic">>

standard == <<"recoverPanic", "logRequest", "secureHeaders">>

Route(method, pattern, mw, handler) ==
    [method |-> method, pattern |-> pattern, mw |-> mw, handler |-> handler]

\* A route table that serves POST /snippet/create on the dynamic chain.
routes_CreateDynamic ==
    << Route("GET",  <<"static", "*filepath">>, << >>, "fileServer"),
       Route("GET",  <<"ping">>, << >>, "ping"),
       Route("GET",  << >>, dynamic, "home"),
       Route("GET",  <<"snippet", "view", ":id">>, dynamic, "snippetView"),
       Route("GET",  <<"user", "signup">>, dynamic, "userSignup"),
       Route("POST", <<"user", "signup">>, dynamic, "userSignupPost"),
       Route("GET",  <<"user", "login">>, dynamic, "userLogin"),
       Route("POST", <<"user", "login">>, dynamic, "userLoginPost"),
       Route("GET",  <<"snippet", "create">>, protected, "snippetCreate"),
       Route("POST", <<"snippet", "create">>, dynamic, "snippetCreatePost"),
       Route("POST", <<"user", "logout">>, protected, "userLogoutPost") >>

\* A route table that serves /ping behind the protected chain.
routes_PingProtected ==
    << Route("GET",  <<"static", "*filepath">>, << >>, "fileServer"),
       Route("GET",  << >>, dynamic, "home"),
       Route("GET",  <<"snippet", "view", ":id">>, dynamic, "snippetView"),
       Route("GET",  <<"user", "signup">>, dynamic, "userSignup"),
       Route("POST", <<"user", "signup">>, dynamic, "userSignupPost"),
       Route("GET",  <<"user", "login">>, dynamic, "userLogin"),
       Route("POST", <<"user", "login">>, dynamic, "userLoginPost"),
       Route("GET",  <<"ping">>, protected, "ping"),
       Route("GET",  <<"snippet", "create">>, protected, "snippetCreate"),
       Route("POST", <<"snippet", "create">>, protected, "snippetCreatePost"),
       Route("POST", <<"user", "logout">>, protected, "userLogoutPost") >>

\* The route table, in registration order.
routes ==
    << Route("GET",  <<"static", "*filepath">>, << >>, "fileServer"),
       Route("GET",  <<"ping">>, << >>, "ping"),
       Route("GET",  << >>, dynamic, "home"),
       Route("GET",  <<"snippet", "view", ":id">>, dynamic, "snippetView"),
       Route("GET",  <<"user", "signup">>, dynamic, "userSignup"),
       Route("POST", <<"user", "signup">>, dynamic, "userSignupPost"),
       Route("GET",  <<"user", "login">>, dynamic, "userLogin"),
       Route("POST", <<"user", "login">>, dynamic, "userLoginPost"),
       Route("GET",  <<"snippet", "create">>, protected, "snippetCreate"),
       Route("POST", <<"snippet", "create">>, protected, "snippetCreatePost"),
       Route("POST", <<"user", "logout">>, protected, "userLogoutPost") >>

\* httprouter: a named segment takes one segment that is not empty, a
\* catch-all the rest of the path after its slash.
RECURSIVE Match(_, _)
Match(pattern, path) ==
    IF pattern = << >> THEN path = << >>
    ELSE IF Head(pattern) = "*filepath" THEN path # << >>
    ELSE /\ path # << >>
         /\ (Head(pattern) = ":id" /\ Head(path) # "") \/ Head(pattern) = Head(path)
         /\ Match(Tail(pattern), Tail(path))

PathHits(path) == {i \in DOMAIN routes : Match(routes[i].pattern, path)}
Hits(method, path) == {i \in PathHits(path) : routes[i].method = method}

\* An Allow header written by hand for the whole site.
Allowed_Hardcoded(path) == {"GET", "POST", "OPTIONS"}

\* httprouter's Allow header: the methods registered for the path, and OPTIONS.
Allowed(path) == {routes[i].method : i \in PathHits(path)} \cup {"OPTIONS"}

\* The path with its trailing slash removed, or added when it has none
\* ("/user/signup/" is <<"user", "signup", "">>).
ToggleSlash(path) ==
    IF path # << >> /\ path[Len(path)] = ""
    THEN SubSeq(path, 1, Len(path) - 1)
    ELSE path \o <<"">>

\* The path in the letter case of the route table.
LowerCase(path) == [i \in DOMAIN path |-> IF path[i] = "PING" THEN "ping" ELSE path[i]]

\* httprouter, RedirectTrailingSlash and RedirectFixedPath (both on in
\* httprouter.New): when the method has routes and the path has none, but
\* the path with the slash toggled or in the table's letter case has, the
\* router redirects to that path.  NoLocation when there is none.
RedirectTarget(method, path) ==
    IF path = << >> \/ ~\E i \in DOMAIN routes : routes[i].method = method
    THEN NoLocation
    ELSE IF Hits(method, ToggleSlash(path)) # {} THEN ToggleSlash(path)
    ELSE IF Hits(method, LowerCase(path)) # {} THEN LowerCase(path)
    ELSE NoLocation

\* 301 for a GET; for the other methods 307 up to httprouter 1.2, 308 since.
RedirectCodes(method) == IF method = "GET" THEN {301} ELSE {307, 308}

\* The frames of the handler that routes() returns, once the router has
\* matched route i: standard.Then(router), then the route's own chain.
Composed(i) == standard \o <<"router">> \o routes[i].mw \o <<routes[i].handler>>

-----------------------------------------------------------------------------
(* The request in flight *)

NoHeaders == [ContentType |-> "", Location |-> NoLocation, Connection |-> "",
              Allow |-> {}, SetCookie |-> 0, Secure |-> FALSE, CacheControl |-> ""]

NoSession == [token |-> 0, data |-> EmptySession, status |-> "Unloaded"]

NoRequest == [method |-> "GET", path |-> << >>, cookie |-> 0, csrf |-> 0,
              post |-> <<"", "", "">>, fault |-> "none"]

NoArg == [page |-> "", status |-> 0]

Stores == [sessionStore |-> sessionStore, users |-> users, snippets |-> snippets,
           templateCache |-> templateCache]

\* What a handler or an interceptor sees and may change.
Cx == [out |-> IF buffering THEN bw ELSE w, wire |-> w.code, hdr |-> hdr,
       sess |-> sess, users |-> users, snippets |-> snippets,
       cache |-> templateCache, call |-> call, panicked |-> FALSE,
       fault |-> req.fault, ctxAuth |-> ctxAuth, req |-> req, now |-> now]

Apply(cx) ==
    /\ IF buffering THEN bw' = cx.out /\ w' = w ELSE w' = cx.out /\ bw' = bw
    /\ hdr' = cx.hdr
    /\ sess' = cx.sess
    /\ users' = cx.users
    /\ snippets' = cx.snippets
    /\ templateCache' = cx.cache
    /\ call' = cx.call
    /\ ctxAuth' = cx.ctxAuth

Frame == IF pos \in DOMAIN chain THEN chain[pos] ELSE "none"

Paths == { << >>, <<"ping">>, <<"static", "main.css">>, <<"static", "nope.css">>,
           <<"snippet", "view", "1">>,
           <<"snippet", "view", "2">>, <<"snippet", "view", "abc">>,
           <<"snippet", "view", "0">>, <<"snippet", "create">>,
           <<"user", "signup">>, <<"user", "login">>, <<"user", "logout">>,
           <<"nope">>, <<"user", "signup", "">>, <<"PING">> }

Methods == {"GET", "POST", "PUT"}

SignupPosts == { <<"Bob", "a@x.io", "pa55word">>, <<"Bob", "b@x.io", "pa55word">>,
                 <<"", "bob", "short">> }

CreatePosts == { <<"T", "C", "7">>, <<"", "C", "7">>, <<" ", "C", "365">>,
                 <<"T", "C", "abc">>, <<"T", " ", "2">>, <<"T", "C", "0">> }

PostsFor(method, path) ==
    IF method = "POST" /\ path = <<"user", "signup">> THEN SignupPosts
    ELSE IF method = "POST" /\ path = <<"snippet", "create">> THEN CreatePosts
    ELSE {NoRequest.post}

\* Faults of the environment that one request may meet: a malformed body, an
\* invalid decoder target, a failing database, a template that fails or
\* panics while it executes.  A request meets one only where its handler
\* has the step that can fail.
FaultsFor(method, path, post) ==
    IF method = "POST" /\ post \in {<<"Bob", "b@x.io", "pa55word">>, <<"T", "C", "7">>}
    THEN {"none", "parse", "decoder", "db", "execErr", "execPanic"}
    ELSE IF method = "POST" /\ post # NoRequest.post
    THEN {"none", "execErr", "execPanic"}
    ELSE IF method = "GET" /\ path \in {<< >>, <<"snippet", "view", "2">>}
    THEN {"none", "db", "execErr", "execPanic"}
    ELSE IF method = "GET" /\ path \in {<<"user", "signup">>, <<"snippet", "create">>}
    THEN {"none", "execErr", "execPanic"}
    ELSE {"none"}

\* The CSRF token of a POST: none, a forged one, or the secret of the
\* session the cookie names.
CsrfFor(method, cookie) ==
    IF method # "POST" THEN {0}
    ELSE {0, 99} \cup (IF cookie \in DOMAIN sessionStore
                       THEN {sessionStore[cookie].csrf} ELSE {})

\* The requests a client may send now, within the bounds.
Admissible(r) ==
    /\ r.cookie = 0 => Cardinality(DOMAIN sessionStore) < MaxSessions
    /\ (r.method = "POST" /\ r.path = <<"user", "signup">>) =>
           (Len(users) < MaxUsers \/ \E i \in DOMAIN users : users[i] = r.post[2])
    /\ (r.method = "POST" /\ r.path = <<"snippet", "create">>) =>
           Len(snippets) < MaxSnippets
    /\ r.fault # "none" => r.csrf \notin {0, 99} \/ r.method = "GET"

-----------------------------------------------------------------------------
(* Steps *)

Init ==
    \* The session backend holds the session of a signed-in user.
    /\ sessionStore = (1 :> [EmptySession EXCEPT !.auth = 1, !.csrf = 1])
    /\ users = <<"a@x.io">>
    \* The snippets table holds a row that expired when this day began.
    /\ snippets = <<[ID |-> 1, Title |-> "old", Content |-> "pond", Created |-> 0,
                     Expires |-> 1]>>
    /\ templateCache = {"home.tmpl", "view.tmpl", "create.tmpl", "signup.tmpl"}
    /\ now = 1
    /\ nextSecret = 2
    /\ nreq = 0
    /\ req = NoRequest
    /\ mode = "idle"
    /\ chain = << >>
    /\ pos = 0
    /\ w = NewWriter(FALSE)
    /\ bw = NewWriter(TRUE)
    /\ buffering = FALSE
    /\ hdr = NoHeaders
    /\ sess = NoSession
    /\ ctxAuth = "none"
    /\ call = << >>
    /\ trace = << >>
    /\ snap = Stores
    /\ arg = NoArg

\* http.Server hands a request to the handler that routes() returned.
Accept ==
    /\ mode \in {"idle", "done"}
    /\ nreq < MaxRequests
    /\ \E method \in Methods, path \in Paths, cookie \in {0} \cup DOMAIN sessionStore :
         \E csrf \in CsrfFor(method, cookie), post \in PostsFor(method, path) :
            \E fault \in FaultsFor(method, path, post) :
               LET r == [method |-> method, path |-> path, cookie |-> cookie,
                         csrf |-> csrf, post |-> post, fault |-> fault]
               IN  Admissible(r) /\ req' = r
    /\ nreq' = nreq + 1
    /\ mode' = "down"
    /\ chain' = standard \o <<"router">>
    /\ pos' = 1
    /\ w' = NewWriter(FALSE)
    /\ bw' = NewWriter(TRUE)
    /\ buffering' = FALSE
    /\ hdr' = NoHeaders
    /\ sess' = NoSession
    /\ ctxAuth' = "none"
    /\ call' = << >>
    /\ trace' = << >>
    /\ snap' = Stores
    /\ UNCHANGED <<sessionStore, users, snippets, templateCache, now, nextSecret, arg>>

\* An interceptor passes the request on to the next frame.
Pass(name) ==
    /\ trace' = Append(trace, name)
    /\ pos' = pos + 1
    /\ mode' = "down"

\* An interceptor or a handler returns to the frame that called it.
Return(name) ==
    /\ trace' = Append(trace, name)
    /\ pos' = pos - 1
    /\ mode' = "up"

\* recoverPanic: defers the recovery and calls next.
RecoverPanic ==
    /\ mode = "down" /\ Frame = "recoverPanic"
    /\ Pass("recoverPanic")
    /\ UNCHANGED <<sessionStore, users, snippets, templateCache, now, nextSecret,
                   nreq, req, chain, w, bw, buffering, hdr, sess, ctxAuth, call, snap, arg>>

\* logRequest: writes the request line to the info log and calls next.
LogRequest ==
    /\ mode = "down" /\ Frame = "logRequest"
    /\ Pass("logRequest")
    /\ UNCHANGED <<sessionStore, users, snippets, templateCache, now, nextSecret,
                   nreq, req, chain, w, bw, buffering, hdr, sess, ctxAuth, call, snap, arg>>

\* secureHeaders: sets the security headers and calls next.
SecureHeaders ==
    /\ mode = "down" /\ Frame = "secureHeaders"
    /\ Apply(SetHeader(Cx, "Secure", TRUE))
    /\ Pass("secureHeaders")
    /\ UNCHANGED <<sessionStore, now, nextSecret, nreq, req, chain, buffering, snap, arg>>

\* httprouter: the route of the method and path; or a redirect to the
\* registered path that differs by the trailing slash or the letter case; or
\* 405 with the Allow header when only the method misses; or the NotFound
\* handler.
Router ==
    /\ mode = "down" /\ Frame = "router"
    /\ LET hit == Hits(req.method, req.path)
           to  == RedirectTarget(req.method, req.path)
       IN  IF hit # {}
           THEN /\ chain' = Composed(CHOOSE i \in hit : TRUE)
                /\ Pass("router")
                /\ UNCHANGED <<w, bw, hdr, sess, users, snippets, templateCache,
                               call, ctxAuth>>
           ELSE /\ chain' = chain
                /\ IF to # NoLocation
                   THEN /\ \E code \in RedirectCodes(req.method) :
                              Apply(Redirect(Cx, to, code))
                        /\ Return("router:redirect")
                   ELSE IF PathHits(req.path) # {}
                   THEN /\ Apply(httpError(SetHeader(Cx, "Allow", Allowed(req.path)),
                                           StatusText(405), 405))
                        /\ Return("router:405")
                   ELSE /\ Apply(notFound(Cx))
                        /\ Return("router:404")
    /\ UNCHANGED <<sessionStore, now, nextSecret, nreq, req, buffering, snap, arg>>

\* LoadAndSave, before next: loads the session of the cookie's token (a new
\* empty one when the backend has none) and buffers the inner chain's output.
LoadAndSave ==
    /\ mode = "down" /\ Frame = "LoadAndSave"
    /\ sess' = IF req.cookie \in DOMAIN sessionStore
               THEN [token |-> req.cookie, data |-> sessionStore[req.cookie],
                     status |-> "Unmodified"]
               ELSE [token |-> 0, data |-> EmptySession, status |-> "Unmodified"]
    /\ bw' = NewWriter(TRUE)
    /\ buffering' = TRUE
    /\ Pass("LoadAndSave")
    /\ UNCHANGED <<sessionStore, users, snippets, templateCache, now, nextSecret,
                   nreq, req, chain, w, hdr, ctxAuth, call, snap, arg>>

\* LoadAndSave, after next has returned: commits a modified session, sets
\* the cookie, then copies the buffered status and body to the connection.
Persist ==
    /\ mode = "up" /\ Frame = "LoadAndSave"
    /\ LET token == IF sess.token = 0 THEN Cardinality(DOMAIN sessionStore) + 1
                    ELSE sess.token
           modified == sess.status = "Modified"
       IN  /\ sessionStore' = IF modified THEN (token :> sess.data) @@ sessionStore
                               ELSE sessionStore
           /\ sess' = IF modified THEN [sess EXCEPT !.token = token] ELSE sess
           /\ hdr' = IF modified /\ w.code = 0 THEN [hdr EXCEPT !.SetCookie = token]
                      ELSE hdr
           /\ trace' = trace \o (IF modified THEN <<"session.Commit">> ELSE << >>)
                              \o <<"LoadAndSave:after">>
    /\ w' = Write(IF bw.code # 0 THEN WriteHeader(w, bw.code) ELSE w, bw.body)
    /\ buffering' = FALSE
    /\ pos' = pos - 1
    /\ mode' = "up"
    /\ UNCHANGED <<users, snippets, templateCache, now, nextSecret, nreq, req, chain,
                   bw, ctxAuth, call, snap, arg>>

\* The CSRF guard: a POST must carry the secret bound to the session; a safe
\* method gets a secret bound to the session when it has none.
NoSurf ==
    /\ mode = "down" /\ Frame = "noSurf"
    /\ IF req.method = "POST"
       THEN IF req.csrf = 0 \/ req.csrf # sess.data.csrf
            THEN /\ Apply(httpError(Cx, StatusText(400), 400))
                 /\ Return("noSurf:400")
                 /\ nextSecret' = nextSecret
            ELSE /\ Pass("noSurf")
                 /\ UNCHANGED <<w, bw, hdr, sess, users, snippets, templateCache,
                                call, ctxAuth, nextSecret>>
       ELSE /\ Pass("noSurf")
            /\ IF sess.data.csrf = 0
               THEN /\ sess' = [sess EXCEPT !.data = [sess.data EXCEPT !.csrf = nextSecret],
                                            !.status = "Modified"]
                    /\ nextSecret' = nextSecret + 1
               ELSE UNCHANGED <<sess, nextSecret>>
            /\ UNCHANGED <<w, bw, hdr, users, snippets, templateCache, call, ctxAuth>>
    /\ UNCHANGED <<sessionStore, now, nreq, req, chain, buffering, snap, arg>>

\* An authenticate that trusts the user id of the session.
Authenticate_Trusting ==
    /\ mode = "down" /\ Frame = "authenticate"
    /\ ctxAuth' = IF sess.data.auth # 0 THEN "true" ELSE ctxAuth
    /\ Pass("authenticate")
    /\ UNCHANGED <<sessionStore, users, snippets, templateCache, now, nextSecret,
                   nreq, req, chain, w, bw, buffering, hdr, sess, call, snap, arg>>

\* authenticate: a session user id that the users table still holds makes
\* the request authenticated; a stale id is removed from the session.  The
\* request always goes on.
Authenticate ==
    /\ mode = "down" /\ Frame = "authenticate"
    /\ LET id == sess.data.auth
       IN  /\ ctxAuth' = IF id # 0 /\ UserExists(users, id) THEN "true" ELSE ctxAuth
           /\ sess' = IF id # 0 /\ ~UserExists(users, id)
                      THEN [sess EXCEPT !.data = [sess.data EXCEPT !.auth = 0],
                                        !.status = "Modified"]
                      ELSE sess
    /\ Pass("authenticate")
    /\ UNCHANGED <<sessionStore, users, snippets, templateCache, now, nextSecret,
                   nreq, req, chain, w, bw, buffering, hdr, call, snap, arg>>

\* requireAuthentication: an anonymous request is sent to the login page and
\* the path it asked for is kept in the session.
RequireAuthentication ==
    /\ mode = "down" /\ Frame = "requireAuthentication"
    /\ IF ~isAuthenticated(ctxAuth)
       THEN /\ Apply(Redirect(Put(Cx, "redirect", req.path), <<"user", "login">>, 303))
            /\ Return("requireAuthentication:redirect")
       ELSE /\ Apply(SetHeader(Cx, "CacheControl", "no-store"))
            /\ Pass("requireAuthentication")
    /\ UNCHANGED <<sessionStore, now, nextSecret, nreq, req, chain, buffering, snap, arg>>

\* The terminal handler of the route runs.
Serve ==
    /\ mode = "down" /\ Frame \in Handlers
    /\ LET cx == Handler(Frame, Cx)
       IN  /\ Apply(cx)
           /\ mode' = IF cx.panicked THEN "panic" ELSE "up"
    /\ trace' = Append(trace, Frame)
    /\ pos' = pos - 1
    /\ UNCHANGED <<sessionStore, now, nextSecret, nreq, req, chain, buffering, snap, arg>>

\* next.ServeHTTP has returned into an interceptor that has nothing left to
\* do but return (for recoverPanic: the deferred function finds no panic).
After ==
    /\ mode = "up" /\ pos >= 1 /\ Frame # "LoadAndSave"
    /\ Return(Frame \o ":after")
    /\ UNCHANGED <<sessionStore, users, snippets, templateCache, now, nextSecret,
                   nreq, req, chain, w, bw, buffering, hdr, sess, ctxAuth, call, snap, arg>>

\* A panic leaves a frame that does not recover; what the frame would have
\* done after next is skipped, and LoadAndSave's buffer is lost.
Unwind ==
    /\ mode = "panic" /\ pos >= 1 /\ Frame # "recoverPanic"
    /\ buffering' = IF Frame = "LoadAndSave" THEN FALSE ELSE buffering
    /\ trace' = Append(trace, Frame \o ":unwind")
    /\ pos' = pos - 1
    /\ mode' = "panic"
    /\ UNCHANGED <<sessionStore, users, snippets, templateCache, now, nextSecret,
                   nreq, req, chain, w, bw, hdr, sess, ctxAuth, call, snap, arg>>

\* recoverPanic's deferred function: closes the connection after the
\* response and answers with the server error.
Recover ==
    /\ mode = "panic" /\ Frame = "recoverPanic"
    /\ Apply(serverError(SetHeader(Cx, "Connection", "close"), "panic"))
    /\ Return("recoverPanic:recover")
    /\ UNCHANGED <<sessionStore, now, nextSecret, nreq, req, chain, buffering, snap, arg>>

\* The composed handler has returned to the server (with a panic no frame
\* recovered, the server drops the connection).
Finish ==
    /\ mode \in {"up", "panic"} /\ pos = 0
    /\ mode' = "done"
    /\ trace' = IF mode = "panic" THEN Append(trace, "conn:abort") ELSE trace
    /\ UNCHANGED <<sessionStore, users, snippets, templateCache, now, nextSecret,
                   nreq, req, chain, pos, w, bw, buffering, hdr, sess, ctxAuth,
                   call, snap, arg>>

Next ==
    \/ Accept
    \/ RecoverPanic \/ LogRequest \/ SecureHeaders \/ Router
    \/ LoadAndSave \/ NoSurf \/ Authenticate \/ RequireAuthentication
    \/ Serve
    \/ Persist \/ After \/ Unwind \/ Recover \/ Finish

Spec == Init /\ [][Next]_vars

-----------------------------------------------------------------------------
(* The server started over stores that earlier use has filled *)

\* What the backend, the tables and the database clock may hold at start:
\*  - a signed-in user and a snippet that expires at this moment (Init);
\*  - a day later: the session of a user whose row is gone from the users
\*    table, one snippet past its expiry and one that expires at this moment;
\*  - a signed-in user who has just created a snippet and has not yet seen
\*    the flash message of it.
Situations ==
    { [sessions |-> (1 :> [EmptySession EXCEPT !.auth = 1, !.csrf = 1]),
       users |-> <<"a@x.io">>,
       snippets |-> <<[ID |-> 1, Title |-> "old", Content |-> "pond", Created |-> 0,
                       Expires |-> 1]>>,
       clock |-> 1],
      [sessions |-> (1 :> [EmptySession EXCEPT !.auth = MaxUsers + 1, !.csrf = 1]),
       users |-> <<"a@x.io">>,
       snippets |-> <<[ID |-> 1, Title |-> "old", Content |-> "pond", Created |-> 0,
                       Expires |-> 1],
                      [ID |-> 2, Title |-> "T", Content |-> "C", Created |-> 1,
                       Expires |-> 2]>>,
       clock |-> 2],
      [sessions |-> (1 :> [EmptySession EXCEPT !.auth = 1, !.csrf = 1,
                                               !.flash = "Snippet successfully created!"]),
       users |-> <<"a@x.io">>,
       snippets |-> <<[ID |-> 1, Title |-> "T", Content |-> "C", Created |-> 1,
                       Expires |-> 8]>>,
       clock |-> 1] }

InitStores ==
    /\ \E s \in Situations :
          /\ sessionStore = s.sessions
          /\ users = s.users
          /\ snippets = s.snippets
          /\ now = s.clock
    /\ templateCache = {"home.tmpl", "view.tmpl", "create.tmpl", "signup.tmpl"}
    /\ nextSecret = 2
    /\ nreq = 0
    /\ req = NoRequest
    /\ mode = "idle"
    /\ chain = << >>
    /\ pos = 0
    /\ w = NewWriter(FALSE)
    /\ bw = NewWriter(TRUE)
    /\ buffering = FALSE
    /\ hdr = NoHeaders
    /\ sess = NoSession
    /\ ctxAuth = "none"
    /\ call = << >>
    /\ trace = << >>
    /\ snap = Stores
    /\ arg = NoArg

SpecStores == InitStores /\ [][Next]_vars

-----------------------------------------------------------------------------
(* render called on its own: every page name, cached or not, every template
   outcome, every content of the cache *)

PageNames == {"home.tmpl", "view.tmpl", "create.tmpl", "signup.tmpl", "login.tmpl"}

InitRender ==
    /\ sessionStore = (1 :> [EmptySession EXCEPT !.flash = "saved"])
    /\ users = << >>
    /\ snippets = << >>
    /\ templateCache \in SUBSET PageNames
    /\ now = 1
    /\ nextSecret = 2
    /\ nreq = 0
    /\ \E f \in {"none", "execErr", "execPanic"} : req = [NoRequest EXCEPT !.fault = f]
    /\ mode = "render"
    /\ chain = << >>
    /\ pos = 0
    /\ w = NewWriter(FALSE)
    /\ bw = NewWriter(TRUE)
    /\ buffering = FALSE
    /\ hdr = NoHeaders
    /\ sess = [token |-> 1, data |-> sessionStore[1], status |-> "Unmodified"]
    /\ ctxAuth = "none"
    /\ call = << >>
    /\ trace = << >>
    /\ snap = Stores
    /\ arg \in [page : PageNames, status : {200, 422}]

\* The data of the page: newTemplateData with the session's flash message.
RenderCall ==
    /\ mode = "render"
    /\ LET t  == newTemplateData(Cx)
           cx == render(t.cx, arg.status, arg.page, t.data)
       IN  /\ Apply(cx)
           /\ mode' = IF cx.panicked THEN "panic" ELSE "rendered"
    /\ UNCHANGED <<sessionStore, now, nextSecret, nreq, req, chain, pos, buffering,
                   trace, snap, arg>>

SpecRender == InitRender /\ [][RenderCall]_vars

-----------------------------------------------------------------------------
(* Properties *)

InTrace(e) == \E i \in DOMAIN trace : trace[i] = e
Calls(e) == \E i \in DOMAIN call : call[i] = e
Count(seq, e) == Cardinality({i \in DOMAIN seq : seq[i] = e})
HandlerRan == \E i \in DOMAIN trace : trace[i] \in Handlers

\* The request in flight has panicked.
PanicSeen ==
    mode = "panic" \/ InTrace("recoverPanic:recover") \/ InTrace("conn:abort")

\* The chunks of a body that a template wrote.
TemplateChunks(body) == {i \in DOMAIN body : body[i].src # "text"}

ServerErrorBody == <<Text("Internal Server Error")>>

StateChanging ==
    /\ mode # "idle"
    /\ req.method = "POST"
    /\ req.path \in {<<"user", "signup">>, <<"user", "login">>,
                     <<"snippet", "create">>, <<"user", "logout">>}

\* The secret bound to the session of the request's cookie; 0 when none is.
BoundSecret ==
    IF req.cookie \in DOMAIN snap.sessionStore
    THEN snap.sessionStore[req.cookie].csrf ELSE 0

CsrfMissing == StateChanging /\ (req.csrf = 0 \/ req.csrf # BoundSecret)

\* C1: a POST to /user/signup, /user/login, /snippet/create or /user/logout
\* without a CSRF token, or with one that is not the secret bound to the
\* session, never reaches the terminal handler: no users.Insert, no
\* snippets.Insert, no flash Put, the tables stay as they were, and the
\* response is 400.
C1_CsrfGuard ==
    CsrfMissing =>
        /\ ~HandlerRan
        /\ ~Calls("users.Insert") /\ ~Calls("snippets.Insert") /\ ~Calls("Put:flash")
        /\ users = snap.users /\ snippets = snap.snippets
        /\ mode = "done" => w.code = 400 /\ w.body = <<Text("Bad Request")>>

C1_Witness ==
    /\ mode = "done" /\ CsrfMissing /\ req.csrf = 99 /\ BoundSecret # 0
    /\ req.path = <<"user", "signup">> /\ InTrace("noSurf:400") /\ w.code = 400

\* C2: a request that panics in its terminal handler is answered with one
\* 500 and nothing else, the panic never reaches the server's connection
\* loop, and the stores are left as the request found them, so that later
\* requests are served as if it had not happened.
C2_PanicIsolated ==
    (mode = "done" /\ PanicSeen) =>
        /\ w.code = 500 /\ w.calls = 1 /\ w.body = ServerErrorBody
        /\ hdr.Connection = "close"
        /\ ~InTrace("conn:abort")
        /\ Stores = snap

C2_Witness ==
    /\ mode = "done" /\ PanicSeen /\ req.fault = "decoder"
    /\ InTrace("userSignupPost") /\ w.code = 500 /\ nreq < MaxRequests

\* C3 (SpecRender): the status and the template's output reach the writer
\* only when the template executed completely and without error; when it
\* fails, nothing it wrote reaches the writer, the requested status is not
\* written, and the response is the 500 (on a panic render writes nothing).
C3_BufferedRender ==
    mode # "render" =>
        /\ TemplateChunks(w.body) # {} =>
              /\ req.fault = "none" /\ arg.page \in snap.templateCache
              /\ w.code = arg.status /\ w.calls = 1
              /\ Len(w.body) = 2
              /\ w.body[1].part = "base" /\ w.body[2].part = "main"
        /\ (req.fault = "execErr" /\ arg.page \in snap.templateCache) =>
              w.code = 500 /\ w.body = ServerErrorBody /\ w.calls = 1
        /\ (req.fault = "execPanic" /\ arg.page \in snap.templateCache) =>
              w = NewWriter(FALSE) /\ mode = "panic"
        /\ w.code = arg.status =>
              req.fault = "none" /\ arg.page \in snap.templateCache

C3_Witness ==
    /\ mode = "rendered" /\ req.fault = "execErr" /\ arg.page \in snap.templateCache
    /\ arg.status = 422 /\ w.code = 500 /\ TemplateChunks(w.body) = {}

\* C4 (SpecRender): for a page that is no key of the template cache, render
\* answers 500, nothing of a template is in the body, and the cache has
\* the keys it had.
C4_MissingPage ==
    (mode # "render" /\ arg.page \notin snap.templateCache) =>
        /\ mode = "rendered"
        /\ w.code = 500 /\ w.body = ServerErrorBody
        /\ TemplateChunks(w.body) = {}
        /\ templateCache = snap.templateCache

C4_Witness ==
    /\ mode = "rendered" /\ arg.page = "login.tmpl" /\ arg.page \notin snap.templateCache
    /\ snap.templateCache # {} /\ w.code = 500

\* users.Insert was called for the request in flight and added no row.
InsertFailed == InTrace("userSignupPost") /\ Calls("users.Insert") /\ users = snap.users

\* The email of the signup is in the users table the request found.
DuplicateEmail == \E i \in DOMAIN snap.users : snap.users[i] = req.post[2]

\* C5: a request handled by userSignupPost writes one terminal response;
\* after the 422 of a duplicate email or the 500 of a failed users.Insert
\* the handler puts no flash message into the session and issues no
\* redirect to /user/login.
C5_SingleResponse ==
    (mode \in {"up", "done"} /\ InTrace("userSignupPost") /\ ~PanicSeen) =>
        /\ bw.calls = 1
        /\ InsertFailed =>
              /\ ~Calls("Put:flash")
              /\ hdr.Location = NoLocation
              /\ sess.data.flash = ""

\* C6: a valid signup whose email the users table holds, so that
\* users.Insert returns ErrDuplicateEmail, is answered with 422 and the
\* signup page, whose form has a field error under "email" (the page
\* executing without a fault); the status is not 500.
C6_DuplicateEmail ==
    (mode = "done" /\ InTrace("userSignupPost") /\ Calls("users.Insert")
        /\ DuplicateEmail /\ req.fault = "none") =>
        /\ w.code = 422
        /\ \E i \in DOMAIN w.body :
              /\ w.body[i].src = "signup.tmpl" /\ w.body[i].part = "main"
              /\ "email" \in ErrorKeys(w.body[i].data.Form)
              /\ w.body[i].data.Form.f2 = req.post[2]

C6_Witness ==
    /\ mode = "done" /\ InTrace("userSignupPost") /\ Calls("users.Insert")
    /\ DuplicateEmail /\ req.fault = "none" /\ w.code = 422
    /\ req.post = <<"Bob", "a@x.io", "pa55word">>

ProtectedRoute ==
    /\ mode # "idle"
    /\ \/ req.path = <<"snippet", "create">>
       \/ req.path = <<"user", "logout">> /\ req.method = "POST"

\* C7: a request to GET or POST /snippet/create or POST /user/logout that
\* authenticate left unauthenticated never reaches the terminal handler
\* (snippets.Insert is not called); requireAuthentication keeps the
\* requested path in the session and answers with the redirect to
\* /user/login.
C7_RequireAuthentication ==
    (ProtectedRoute /\ ~isAuthenticated(ctxAuth)) =>
        /\ ~HandlerRan
        /\ ~Calls("snippets.Insert") /\ snippets = snap.snippets
        /\ (mode = "done" /\ InTrace("authenticate")) =>
              /\ InTrace("requireAuthentication:redirect")
              /\ w.code = 303 /\ hdr.Location = <<"user", "login">>
              /\ sess.data.redirect = req.path
              /\ sessionStore[sess.token].redirect = req.path

C7_Witness ==
    /\ mode = "done" /\ ProtectedRoute /\ ~isAuthenticated(ctxAuth)
    /\ req.method = "POST" /\ req.path = <<"snippet", "create">>
    /\ InTrace("requireAuthentication:redirect") /\ w.code = 303

\* The request was routed into a dynamic or protected chain.
SessionRoute ==
    /\ mode # "idle"
    /\ \E i \in Hits(req.method, req.path) : routes[i].mw # << >>

First(seq, e) == CHOOSE i \in DOMAIN seq : seq[i] = e

InnerPhases == Handlers \cup
    {"noSurf", "noSurf:400", "noSurf:after", "authenticate", "authenticate:after",
     "requireAuthentication", "requireAuthentication:redirect",
     "requireAuthentication:after"}

\* C8: a request to a dynamic or protected route loads the session once,
\* before the inner chain runs, and, once the inner chain has returned,
\* runs the persist once, after everything the inner chain did, whatever
\* status the inner chain wrote.
C8_OneLoadOnePersist ==
    SessionRoute =>
        /\ Count(trace, "LoadAndSave") <= 1 /\ Count(trace, "LoadAndSave:after") <= 1
        /\ \A i \in DOMAIN trace : trace[i] \in InnerPhases =>
              /\ InTrace("LoadAndSave") /\ First(trace, "LoadAndSave") < i
              /\ InTrace("LoadAndSave:after") => i < First(trace, "LoadAndSave:after")
        /\ (mode = "done" /\ ~PanicSeen) =>
              /\ Count(trace, "LoadAndSave") = 1
              /\ Count(trace, "LoadAndSave:after") = 1
              /\ sess.status = "Modified" => sessionStore[sess.token] = sess.data

C8_Witness ==
    /\ mode = "done" /\ SessionRoute /\ ~PanicSeen /\ w.code = 422
    /\ Count(trace, "LoadAndSave:after") = 1 /\ InTrace("session.Commit")
    /\ sessionStore[sess.token] = sess.data

\* The handler changed the session of the request before it panicked.
MutatedThenPanicked ==
    /\ mode = "done" /\ PanicSeen /\ SessionRoute
    /\ sess.status = "Modified" /\ Calls("Pop:flash")

\* C9 as stated: a session mutation made before the inner chain panicked
\* is in the session backend once the panic has been caught.
C9_PersistedAfterPanic ==
    MutatedThenPanicked =>
        /\ req.cookie \in DOMAIN sessionStore
        /\ sessionStore[req.cookie] = sess.data

\* C9, amended: the panic leaves LoadAndSave before its persist runs; the
\* session backend keeps what it held when the request arrived, and the
\* mutation made before the panic is not in it.
C9_DroppedAfterPanic ==
    (mode = "done" /\ PanicSeen /\ SessionRoute) =>
        /\ ~InTrace("LoadAndSave:after") /\ ~InTrace("session.Commit")
        /\ sessionStore = snap.sessionStore
        /\ hdr.SetCookie = 0
        /\ MutatedThenPanicked => sessionStore[req.cookie] # sess.data

C9_Witness ==
    /\ MutatedThenPanicked /\ w.code = 500
    /\ sessionStore[req.cookie].flash # "" /\ sess.data.flash = ""

RECURSIVE Reverse(_)
Reverse(seq) == IF seq = << >> THEN << >> ELSE Reverse(Tail(seq)) \o <<Head(seq)>>

IsPrefix(a, b) == Len(a) <= Len(b) /\ a = SubSeq(b, 1, Len(a))

Interceptors == {"recoverPanic", "logRequest", "secureHeaders", "router",
                 "LoadAndSave", "noSurf", "authenticate", "requireAuthentication"}

IsBefore(e) == e \in Interceptors
IsAfter(e) == e \in {n \o ":after" : n \in Interceptors}
IsPhase(e) == IsBefore(e) \/ IsAfter(e) \/ e \in Handlers

RECURSIVE AfterOf(_)
AfterOf(seq) ==
    IF seq = << >> THEN << >> ELSE <<Head(seq) \o ":after">> \o AfterOf(Tail(seq))

\* The order in which a request to this route is to meet the interceptors.
OrderFor ==
    <<"recoverPanic", "logRequest", "secureHeaders", "router">> \o
    (IF SessionRoute THEN <<"LoadAndSave", "noSurf", "authenticate">> ELSE << >>) \o
    (IF ProtectedRoute THEN <<"requireAuthentication">> ELSE << >>)

\* C10: the interceptors call next in the order recoverPanic, logRequest,
\* secureHeaders, router, LoadAndSave, noSurf, authenticate, then
\* requireAuthentication on a protected route, then the terminal handler;
\* next returns into them in the reverse order, so that the persist of
\* LoadAndSave comes after the handler and before recoverPanic returns.
C10_NestedOrder ==
    mode # "idle" =>
        LET before == SelectSeq(trace, IsBefore)
            phases == SelectSeq(trace, IsPhase)
        IN  /\ IsPrefix(before, OrderFor)
            /\ HandlerRan => before = OrderFor
            /\ (mode = "done" /\ ~PanicSeen) =>
                  phases = before \o SelectSeq(trace, LAMBDA e : e \in Handlers)
                                  \o Reverse(AfterOf(before))

C10_Witness ==
    /\ mode = "done" /\ ~PanicSeen /\ ProtectedRoute /\ InTrace("snippetCreatePost")
    /\ InTrace("session.Commit") /\ w.code = 303
    /\ Len(SelectSeq(trace, IsPhase)) = 17

\* The page a response carries shows the text (a field of its snippet).
Shows(body, text) ==
    \E i \in DOMAIN body :
        /\ body[i].src = "view.tmpl"
        /\ text \in {body[i].data.Snippet.Title, body[i].data.Snippet.Content}

\* snippetCreatePost has answered the submission of T, C, 7.
Submitted ==
    /\ mode = "done" /\ InTrace("snippetCreatePost")
    /\ req.post = <<"T", "C", "7">> /\ req.fault = "none"

\* The response sends the client to the page of the row that Insert added.
RedirectsTo(id) ==
    /\ id = Len(snap.snippets) + 1 /\ id \in DOMAIN snippets
    /\ snippets[id].ID = id /\ snippets[id].Title = "T" /\ snippets[id].Content = "C"
    /\ w.code = 303 /\ hdr.Location = <<"snippet", "view", ToString(id)>>

\* A GET of the page of snippet id has been answered, nothing failing.
Fetched(id) ==
    /\ mode = "done" /\ req.method = "GET" /\ req.fault = "none"
    /\ req.path = <<"snippet", "view", ToString(id)>>

\* C11: the submission of title T, content C, expires 7 by a signed-in
\* client with the right CSRF token is answered 303 with Location
\* /snippet/view/{id}, id being the one snippets.Insert returned, and every
\* GET of that path afterwards (within the 7 days) is answered 200 with a
\* page that shows T and C.
C11_CreateThenView ==
    /\ [](Submitted => \E id \in 1..(MaxSnippets + 1) : RedirectsTo(id))
    /\ \A id \in 1..(MaxSnippets + 1) :
          []((Submitted /\ RedirectsTo(id)) =>
                [](Fetched(id) => /\ w.code = 200
                                  /\ Shows(w.body, "T") /\ Shows(w.body, "C")))

C11_Witness ==
    /\ Fetched(2) /\ nreq = 2 /\ Len(snap.snippets) = 2
    /\ w.code = 200 /\ Shows(w.body, "T") /\ Shows(w.body, "C")

\* snippetCreatePost has decoded a form whose title is empty or blank.
BlankTitle ==
    /\ InTrace("snippetCreatePost") /\ Calls("CheckField")
    /\ TrimSpace(req.post[1]) = ""

\* C12: a submission to /snippet/create whose title is empty or only
\* white space is answered 422 with the create page; the form of the page
\* has a field error under "title" and the content and expires that were
\* submitted; snippets.Insert is not called.
C12_BlankTitle ==
    BlankTitle =>
        /\ ~Calls("snippets.Insert") /\ snippets = snap.snippets
        /\ (mode = "done" /\ req.fault = "none") =>
              /\ w.code = 422
              /\ \E i \in DOMAIN w.body :
                    /\ w.body[i].src = "create.tmpl" /\ w.body[i].part = "main"
                    /\ "title" \in ErrorKeys(w.body[i].data.Form)
                    /\ w.body[i].data.Form.f1 = req.post[1]
                    /\ w.body[i].data.Form.f2 = req.post[2]
                    /\ w.body[i].data.Form.n = Atoi(req.post[3]).val

C12_Witness ==
    /\ mode = "done" /\ BlankTitle /\ req.post = <<" ", "C", "365">>
    /\ req.fault = "none" /\ w.code = 422

\* GET /ping has been answered.
Pinged == mode = "done" /\ req.method = "GET" /\ req.path = <<"ping">>

\* C13: GET /ping is answered 200 with the body "OK" whatever the stores
\* hold, with or without a session cookie, signed in or not: the session is
\* not loaded and no guard runs on the way to the handler.
C13_Ping ==
    Pinged =>
        /\ w.code = 200 /\ w.body = <<Text("OK")>>
        /\ trace = <<"recoverPanic", "logRequest", "secureHeaders", "router", "ping",
                     "router:after", "secureHeaders:after", "logRequest:after",
                     "recoverPanic:after">>
        /\ sess = NoSession /\ Stores = snap

C13_Witness ==
    /\ Pinged /\ w.code = 200 /\ nreq = 2
    /\ req.cookie \in DOMAIN sessionStore /\ sessionStore[req.cookie].auth # 0
    /\ Len(users) = 2

\* The path of the answered request matches no pattern of the route table.
NoPattern == mode = "done" /\ PathHits(req.path) = {}

\* The path matches a pattern, but none registered for the request's method.
WrongMethod ==
    mode = "done" /\ PathHits(req.path) # {} /\ Hits(req.method, req.path) = {}

\* The methods the route table registers for the path.
Registered(path) ==
    {m \in Methods : \E i \in DOMAIN routes :
                        routes[i].method = m /\ Match(routes[i].pattern, path)}

NotFoundBody == <<Text("Not Found")>>

ExpiredRow(id) ==
    \E i \in DOMAIN snap.snippets :
        snap.snippets[i].ID = id /\ snap.snippets[i].Expires <= now

\* C15 (SpecStores): for every id of a row whose expiry is at or before the
\* query time, Get returns ErrNoRecord, so that snippetView answers 404;
\* the row is in the table after the query as it was before.
C15_ExpiredHidden ==
    \A id \in 1..(MaxSnippets + 1) :
        ExpiredRow(id) =>
            /\ SnippetGet(snippets, id, now, "none").err = "ErrNoRecord"
            /\ (mode = "done" /\ InTrace("snippetView") /\ req.fault # "db"
                    /\ req.path = <<"snippet", "view", ToString(id)>>) =>
                  /\ w.code = 404 /\ w.body = NotFoundBody
                  /\ snippets = snap.snippets
            /\ \E i \in DOMAIN snippets : snippets[i].ID = id /\ snippets[i].Expires <= now

C15_Witness ==
    /\ mode = "done" /\ InTrace("snippetView") /\ req.path = <<"snippet", "view", "1">>
    /\ ExpiredRow(1) /\ now = 2 /\ w.code = 404
    /\ \E i \in DOMAIN snippets : snippets[i].ID = 1 /\ snippets[i].Expires < now

\* The user id in the session that the request's cookie names, as the
\* backend held it when the request arrived; 0 when there is none.
LoadedUser ==
    IF req.cookie \in DOMAIN snap.sessionStore
    THEN snap.sessionStore[req.cookie].auth ELSE 0

\* The session named a user that the users table does not hold.
StaleUser == LoadedUser # 0 /\ ~UserExists(snap.users, LoadedUser)

AfterAuthenticate == Handlers \cup {"requireAuthentication", "requireAuthentication:redirect"}

\* C16 (SpecStores): authenticate writes no response and always calls the
\* next handler of the chain.  A session user id that the users table does
\* not hold is removed from the session and the request goes on as
\* anonymous; the request is authenticated only if the session holds the
\* id of a row of the users table.
C16_Authenticate ==
    /\ \A i \in DOMAIN trace : trace[i] = "authenticate" =>
          IF i < Len(trace)
          THEN trace[i + 1] \in AfterAuthenticate
          ELSE /\ mode = "down" /\ Frame \in Handlers \cup {"requireAuthentication"}
               /\ bw = NewWriter(TRUE) /\ w = NewWriter(FALSE)
    /\ (InTrace("authenticate") /\ StaleUser) =>
          /\ sess.data.auth = 0 /\ ~isAuthenticated(ctxAuth)
          /\ (mode = "done" /\ ~PanicSeen) => sessionStore[req.cookie].auth = 0
    /\ isAuthenticated(ctxAuth) =>
          /\ sess.data.auth # 0 /\ UserExists(users, sess.data.auth)
          /\ InTrace("authenticate")

C16_Witness ==
    /\ mode = "done" /\ StaleUser /\ InTrace("authenticate")
    /\ req.path = <<"snippet", "create">> /\ req.method = "GET"
    /\ InTrace("requireAuthentication:redirect") /\ w.code = 303
    /\ sessionStore[req.cookie].auth = 0

\* userLogoutPost has answered the POST /user/logout of a signed-in session.
LogoutAnswered ==
    /\ mode = "done" /\ InTrace("userLogoutPost") /\ ~PanicSeen
    /\ req.cookie \in DOMAIN sessionStore

\* C17: once userLogoutPost has answered the POST /user/logout of a signed-in
\* session, the session in the backend holds no user id; the next request
\* with the same cookie arrives at a session without one, and a request
\* to a protected route whose session holds no user id is redirected to
\* /user/login.
C17_LoggedOut ==
    /\ [](LogoutAnswered => sessionStore[req.cookie].auth = 0)
    /\ [][(LogoutAnswered /\ nreq' = nreq + 1 /\ req'.cookie = req.cookie)
             => snap'.sessionStore[req'.cookie].auth = 0]_vars
    /\ []((mode = "done" /\ ProtectedRoute /\ InTrace("authenticate")
                /\ LoadedUser = 0) =>
             /\ InTrace("requireAuthentication:redirect")
             /\ w.code = 303 /\ hdr.Location = <<"user", "login">>)

\* The flash message that a page of the response shows; "" when none does.
FlashShown ==
    IF \E i \in DOMAIN w.body : w.body[i].data.Flash # ""
    THEN w.body[CHOOSE i \in DOMAIN w.body : w.body[i].data.Flash # ""].data.Flash
    ELSE ""

\* The flash message of the session that the request's cookie names, as the
\* backend held it when the request arrived.
LoadedFlash ==
    IF req.cookie \in DOMAIN snap.sessionStore
    THEN snap.sessionStore[req.cookie].flash ELSE ""

\* The request has been answered; its session held a flash message,
\* newTemplateData was called and the handler put no new one.
ReadFlashNow ==
    /\ mode = "done" /\ LoadedFlash # ""
    /\ Calls("newTemplateData") /\ ~Calls("Put:flash")

NewRows == DOMAIN snippets \ DOMAIN snap.snippets

\* C19: every row of the snippets table expires after it was created; a
\* row that snippetCreatePost inserts expires 1, 7 or 365 days after its
\* creation, because the handler calls Insert with no other value.
C19_ExpiresAfterCreated ==
    /\ \A i \in DOMAIN snippets : snippets[i].Expires > snippets[i].Created
    /\ (Calls("snippets.Insert") /\ req.fault # "db") =>
          /\ InTrace("snippetCreatePost")
          /\ Atoi(req.post[3]).ok /\ Atoi(req.post[3]).val \in {1, 7, 365}
          /\ NewRows = {Len(snippets)}
    /\ \A i \in NewRows :
          /\ snippets[i].Created = now
          /\ snippets[i].Expires = now + Atoi(req.post[3]).val

C19_Witness ==
    /\ mode = "done" /\ Calls("snippets.Insert") /\ NewRows = {2}
    /\ snippets[2].Created = 1 /\ snippets[2].Expires = 8

\* A form handler ran and the decoding of its form returned an error: the
\* body could not be parsed, or a field could not be converted.
DecodeFailed ==
    \/ /\ InTrace("snippetCreatePost")
       /\ req.fault = "parse" \/ Decode("create", req.post).err
    \/ /\ InTrace("userSignupPost")
       /\ req.fault = "parse" \/ Decode("signup", req.post).err

\* C20: when the decoding of the form fails in snippetCreatePost or
\* userSignupPost, the response is 400; no check of the validator runs, no
\* template is rendered, and neither snippets.Insert nor users.Insert is
\* called.
C20_DecodeFailure ==
    DecodeFailed =>
        /\ bw.code = 400 /\ bw.body = <<Text("Bad Request")>> /\ bw.calls = 1
        /\ ~Calls("CheckField") /\ ~Calls("newTemplateData")
        /\ TemplateChunks(bw.body) = {}
        /\ ~Calls("snippets.Insert") /\ ~Calls("users.Insert")
        /\ users = snap.users /\ snippets = snap.snippets
        /\ mode = "done" => w.code = 400 /\ w.body = <<Text("Bad Request")>>

C20_Witness ==
    /\ mode = "done" /\ DecodeFailed /\ InTrace("snippetCreatePost")
    /\ req.post = <<"T", "C", "abc">> /\ w.code = 400

-----------------------------------------------------------------------------
(* Validation of a decoded form *)

\* The checks a handler declares for the submitted values, in the order of
\* its CheckField calls: whether the check passes, and the field it names.
DeclaredChecks ==
    IF req.path = <<"snippet", "create">>
    THEN << [ok |-> NotBlank(req.post[1]), key |-> "title"],
            [ok |-> MaxChars(req.post[1], 100), key |-> "title"],
            [ok |-> NotBlank(req.post[2]), key |-> "content"],
            [ok |-> PermittedInt(Atoi(req.post[3]).val, {1, 7, 365}), key |-> "expires"] >>
    ELSE << [ok |-> NotBlank(req.post[1]), key |-> "name"],
            [ok |-> NotBlank(req.post[2]), key |-> "email"],
            [ok |-> MatchesEmailRX(req.post[2]), key |-> "email"],
            [ok |-> NotBlank(req.post[3]), key |-> "password"],
            [ok |-> MinChars(req.post[3], 8), key |-> "password"] >>

FailingChecks == SelectSeq(DeclaredChecks, LAMBDA c : ~c.ok)
FailingFields == {FailingChecks[i].key : i \in DOMAIN FailingChecks}

\* snippetCreatePost or userSignupPost has run its checks on a decoded form.
Validated ==
    /\ InTrace("snippetCreatePost") \/ InTrace("userSignupPost")
    /\ Calls("CheckField")

\* The form page of the response, with the record attached to it.
FormPages ==
    {i \in DOMAIN w.body : /\ w.body[i].part = "main"
                           /\ w.body[i].src \in {"create.tmpl", "signup.tmpl"}}

\* C21: validation runs every declared check, in order, whatever failed
\* before: the record of the 422 page holds one message per failing check,
\* under the field of the check and in the order of the checks, so the
\* fields with errors are exactly the fields with a failing check.  The
\* record is valid iff no check failed: then and only then the handler calls
\* the Insert of its store; an invalid record is answered with the form page
\* at 422 and leaves both tables as they were.
C21_Validation ==
    Validated =>
        /\ (FailingChecks = << >>) <=>
              (Calls("snippets.Insert") \/ Calls("users.Insert"))
        /\ FailingChecks # << >> =>
              /\ snippets = snap.snippets /\ users = snap.users
              /\ (mode = "done" /\ req.fault = "none") =>
                    /\ w.code = 422
                    /\ FormPages # {}
                    /\ \A i \in FormPages :
                          LET fe == w.body[i].data.Form.FieldErrors
                          IN  /\ Len(fe) = Len(FailingChecks)
                              /\ \A k \in DOMAIN fe : fe[k][1] = FailingChecks[k].key
                              /\ ErrorKeys(w.body[i].data.Form) = FailingFields
                              /\ ~Valid(w.body[i].data.Form)

C21_Witness ==
    /\ mode = "done" /\ Validated /\ req.post = <<"T", " ", "2">>
    /\ req.fault = "none" /\ w.code = 422
    /\ FailingFields = {"content", "expires"}
    /\ \E i \in FormPages : ErrorKeys(w.body[i].data.Form) = {"content", "expires"}

-----------------------------------------------------------------------------
(* snippetView *)

\* snippetView has run for the request in flight.
Viewed == InTrace("snippetView")

\* The id segment of the path converts to an integer of at least 1.
GoodId == Atoi(req.path[3]).ok /\ Atoi(req.path[3]).val >= 1

\* The table holds a row with the id of the path that has not expired.
LiveRow ==
    \E i \in DOMAIN snap.snippets :
        /\ snap.snippets[i].ID = Atoi(req.path[3]).val
        /\ snap.snippets[i].Expires > now

\* C22: snippetView answers an id segment that is no integer, or an integer
\* below 1, with 404 and does not call snippets.Get; otherwise it calls Get:
\* no live row (ErrNoRecord) is answered 404, nothing logged; any other error
\* of the store is logged and answered 500 with the body "Internal Server
\* Error" and nothing else; a 200 with the view page is sent only after a
\* Get that returned the row.
C22_SnippetView ==
    Viewed =>
        /\ Calls("snippets.Get") <=> GoodId
        /\ (GoodId /\ req.fault = "db") => Calls("errorLog")
        /\ (req.fault # "db" /\ ~(GoodId /\ LiveRow)) => ~Calls("errorLog")
        /\ Calls("newTemplateData") <=> (GoodId /\ LiveRow /\ req.fault # "db")
        /\ mode = "done" =>
              /\ ~GoodId => w.code = 404 /\ w.body = <<Text("Not Found")>>
              /\ (GoodId /\ req.fault = "db") =>
                    w.code = 500 /\ w.body = ServerErrorBody
              /\ (GoodId /\ req.fault # "db" /\ ~LiveRow) =>
                    w.code = 404 /\ w.body = <<Text("Not Found")>>
              /\ w.code = 200 =>
                    /\ GoodId /\ LiveRow /\ req.fault = "none"
                    /\ \E i \in DOMAIN w.body :
                          /\ w.body[i].src = "view.tmpl" /\ w.body[i].part = "main"
                          /\ w.body[i].data.Snippet.ID = Atoi(req.path[3]).val
              /\ (GoodId /\ LiveRow /\ req.fault = "none") => w.code = 200

C22_Witness ==
    /\ mode = "done" /\ Viewed /\ GoodId /\ LiveRow /\ req.fault = "db"
    /\ w.code = 500 /\ w.body = ServerErrorBody

-----------------------------------------------------------------------------
(* Writes to the snippets table *)

\* The row a successful snippets.Insert of the submitted form adds.
InsertedRow ==
    [ID |-> Len(snap.snippets) + 1, Title |-> req.post[1], Content |-> req.post[2],
     Created |-> now, Expires |-> now + Atoi(req.post[3]).val]

\* The user id of the session that the request's cookie names; 0 when none.
SessionUser ==
    IF req.cookie \in DOMAIN snap.sessionStore
    THEN snap.sessionStore[req.cookie].auth ELSE 0

\* What has happened before snippets.Insert is called.
InsertGuards ==
    /\ req.method = "POST" /\ req.path = <<"snippet", "create">>
    /\ InTrace("snippetCreatePost")
    /\ \A i \in DOMAIN trace : trace[i] \in Handlers => trace[i] = "snippetCreatePost"
    \* the CSRF guard has let the request through
    /\ InTrace("noSurf") /\ ~InTrace("noSurf:400")
    /\ req.csrf # 0 /\ req.csrf = BoundSecret
    \* authenticate has found the user of the session
    /\ InTrace("authenticate") /\ ctxAuth = "true"
    /\ SessionUser # 0 /\ UserExists(snap.users, SessionUser)
    /\ InTrace("requireAuthentication")
    /\ First(trace, "noSurf") < First(trace, "authenticate")
    /\ First(trace, "authenticate") < First(trace, "requireAuthentication")
    /\ First(trace, "requireAuthentication") < First(trace, "snippetCreatePost")
    \* the form was decoded and every check passed
    /\ req.fault \notin {"parse", "decoder"} /\ Atoi(req.post[3]).ok
    /\ Calls("CheckField") /\ FailingChecks = << >>
    /\ First(call, "CheckField") < First(call, "snippets.Insert")

\* C23: a request calls snippets.Insert at most once, and only from
\* snippetCreatePost, after the CSRF guard has passed, authenticate has set
\* isAuthenticated, the form has been decoded and every check has passed.
\* The snippets table differs from what the request found only by the one
\* row of an Insert that succeeded; on every other route and every failing
\* path it is what the request found.
C23_InsertGuarded ==
    /\ Count(call, "snippets.Insert") <= 1
    /\ Calls("snippets.Insert") => InsertGuards
    /\ IF Calls("snippets.Insert") /\ req.fault # "db"
       THEN snippets = Append(snap.snippets, InsertedRow)
       ELSE snippets = snap.snippets

C23_Witness ==
    /\ mode = "done" /\ Calls("snippets.Insert") /\ InsertGuards
    /\ req.fault = "none" /\ w.code = 303
    /\ snippets = Append(snap.snippets, InsertedRow)

-----------------------------------------------------------------------------
(* The public routes and the standard chain *)

\* A GET of /ping or of a path under /static/ is in flight or answered.
PublicRequest ==
    /\ mode # "idle" /\ req.method = "GET"
    /\ req.path = <<"ping">> \/ (Len(req.path) = 2 /\ req.path[1] = "static")

\* The phases of a request that runs the standard chain, the router and a
\* public handler, and nothing else.
StandardPhases ==
    {"recoverPanic", "logRequest", "secureHeaders", "router", "ping", "fileServer",
     "router:after", "secureHeaders:after", "logRequest:after", "recoverPanic:after"}

\* C24: a GET of /ping or /static/* runs the standard chain, the router and
\* its handler only: the session is neither loaded nor persisted, the CSRF
\* guard and authenticate do not run, no session cookie is set.  Every
\* response, the router's 404, 405 and redirect included, is written after
\* logRequest and secureHeaders have run, in that order, and carries the
\* security headers.
C24_PublicRoutes ==
    /\ PublicRequest =>
          /\ \A i \in DOMAIN trace : trace[i] \in StandardPhases
          /\ \A i \in DOMAIN chain :
                chain[i] \in {"recoverPanic", "logRequest", "secureHeaders", "router",
                              "ping", "fileServer"}
          /\ sess = NoSession /\ ~buffering /\ ctxAuth = "none"
          /\ sessionStore = snap.sessionStore
          /\ hdr.SetCookie = 0
          /\ ~Calls("Put:flash") /\ ~Calls("Put:redirect")
    /\ (mode # "idle" /\ (mode = "done" \/ w.code # 0 \/ bw.code # 0 \/ hdr.SetCookie # 0)) =>
          /\ InTrace("logRequest") /\ InTrace("secureHeaders")
          /\ First(trace, "logRequest") < First(trace, "secureHeaders")
          /\ InTrace("router")
                => First(trace, "secureHeaders") < First(trace, "router")
          /\ hdr.Secure
    /\ mode = "done" => w.code # 0

C24_Witness ==
    /\ mode = "done" /\ PublicRequest /\ req.path = <<"static", "main.css">>
    /\ req.cookie = 1 /\ 1 \in DOMAIN sessionStore
    /\ w.code = 200 /\ hdr.Secure /\ hdr.SetCookie = 0 /\ sess = NoSession
====
